---- MODULE Spec2Model ----
(***************************************************************************)
(* GuitarAccuracy onset detection: AubioOnset.py (script 1) and            *)
(* scripts/librosa_onset_detection.py (script 2).                          *)
(*                                                                         *)
(* Script 1 times are kept as sample positions: aubio's get_last_s() is    *)
(* get_last() / samplerate, so a time of p samples is p / samplerate       *)
(* seconds and every comparison of seconds is written multiplied through   *)
(* by samplerate (> 0).  Script 2 times are kept in tenths of a second.    *)
(* Arithmetic is exact; binary floating-point rounding is not modelled.    *)
(***************************************************************************)
EXTENDS Integers, Sequences, FiniteSets

VARIABLES
    pc,               \* position of the running script
    argv,             \* script 1: sys.argv[1:], each token parsed or not by int()
    file_exists,      \* whether the input audio file exists
    expected_notes,   \* script 1: main's expected_notes
    min_wait_frames,  \* script 1: main's min_wait_frames
    samplerate,       \* script 1: s.samplerate
    onset_method,     \* script 1: policy bucket's method
    threshold,        \* script 1: policy bucket's threshold, in tenths
    onsets,           \* script 1: the list named onsets
    raw,              \* script 1: onsets as it stood when the read loop ended
    refr,             \* script 1: onsets as it stood after the refractory step
    total_frames,     \* script 1: total_frames
    beatmap,          \* script 1: ./results.beatmap.txt
    err,              \* where the run failed: "none" or the failing stage
    exit_code,        \* process exit status, -1 while running
    entry,            \* script 2: "main" (command line) or "call" (library call)
    method,           \* script 2: method argument
    min_db,           \* script 2: min_db argument
    output,           \* script 2: whether --output was given
    loaded,           \* script 2: librosa.load has been called
    onset_times,      \* script 2: onset_times, a typed value
    beat_times,       \* script 2: beat_times, a typed value
    ret,              \* script 2: value returned by detect_onsets_librosa
    caught,           \* script 2: exception caught at line 42, "none" if none
    docs              \* script 2: JSON documents emitted so far

vars == <<pc, argv, file_exists, expected_notes, min_wait_frames, samplerate,
          onset_method, threshold, onsets, raw, refr, total_frames, beatmap,
          err, exit_code, entry, method, min_db, output, loaded, onset_times,
          beat_times, ret, caught, docs>>

aubioVars == <<argv, expected_notes, min_wait_frames, samplerate, onset_method,
               threshold, onsets, raw, refr, total_frames, beatmap>>

librosaVars == <<entry, method, min_db, output, loaded, onset_times,
                 beat_times, ret, caught, docs>>

----------------------------------------------------------------------------
(* Bounds *)

MaxBlocks == 3

MaxTime == 5

MaxBeats == 2

----------------------------------------------------------------------------
(* Script 1: AubioOnset.py *)

win_s == 512

hop_s == win_s \div 2

default_expected_notes == 14

default_min_wait_frames == 30

min_onset_time_num == 1

min_onset_time_den == 10

max_recording_time == 15

Tok(n) == [isint |-> TRUE, val |-> n]

BadTok == [isint |-> FALSE, val |-> 0]

\* Command lines tried: defaults, each policy bucket, min_wait_frames
\* negative, zero and positive, and a non-integer in either position.
Argvs ==
    { <<>>, <<Tok(8)>>, <<Tok(20), Tok(0)>>, <<Tok(14), Tok(-1)>>,
      <<Tok(14), Tok(1)>>, <<Tok(14), Tok(2)>>, <<BadTok>>, <<Tok(14), BadTok>> }

SampleRates == {1280, 2560}

\* Sample positions at which the detector may report an onset: around the
\* leading edge (0.1 s) and around the trailing edge (15.0 s).
OnsetPositions(sr) ==
    {0, 128, 256, 384, 512, 768}
        \cup {max_recording_time * sr - 128, max_recording_time * sr,
              max_recording_time * sr + 128}

ShortReads == {0, hop_s - 1}

PreviousBeatmap == [state |-> "previous", lines |-> <<>>]

OnsetMethod(n) ==
    IF n <= 8 THEN "hfc" ELSE IF n <= 16 THEN "default" ELSE "energy"

Threshold(n) ==
    IF n <= 8 THEN 3 ELSE IF n <= 16 THEN 5 ELSE 7

\* Integer (floor) division in place of true division
MinWaitSecondsFloorDiv(mwf, sr) == ((mwf * hop_s) \div sr) * sr

\* min_wait_seconds = min_wait_frames * hop_s / samplerate, which in units
\* of 1 / samplerate seconds is min_wait_frames * hop_s
MinWaitSeconds(mwf, sr) == mwf * hop_s

\* last_onset starting at zero
LastOnsetInitZero(g) == 0

LastOnsetInit(g) == -g

KeepOnset(t, last, g) == t - last >= g

RECURSIVE RefractoryLoop(_, _, _, _, _)
RefractoryLoop(list, i, last, g, filtered) ==
    IF i > Len(list) THEN filtered
    ELSE IF KeepOnset(list[i], last, g)
         THEN RefractoryLoop(list, i + 1, list[i], g, Append(filtered, list[i]))
         ELSE RefractoryLoop(list, i + 1, last, g, filtered)

\* The scan starting at the second onset
RefractorySkipFirst(list, mwf, sr) ==
    IF mwf > 0
    THEN RefractoryLoop(list, 2, LastOnsetInit(MinWaitSeconds(mwf, sr)),
                        MinWaitSeconds(mwf, sr), <<>>)
    ELSE list

\* The guard off by one
RefractoryGuardOffByOne(list, mwf, sr) ==
    IF mwf > 1
    THEN RefractoryLoop(list, 1, LastOnsetInit(MinWaitSeconds(mwf, sr)),
                        MinWaitSeconds(mwf, sr), <<>>)
    ELSE list

Refractory(list, mwf, sr) ==
    IF mwf > 0
    THEN RefractoryLoop(list, 1, LastOnsetInit(MinWaitSeconds(mwf, sr)),
                        MinWaitSeconds(mwf, sr), <<>>)
    ELSE list

\* The lower bound taken as exclusive
AfterStartStrict(t, sr) == min_onset_time_den * t > min_onset_time_num * sr

AfterStart(t, sr) == min_onset_time_den * t >= min_onset_time_num * sr

BeforeEnd(t, sr) == t <= max_recording_time * sr

LeadingEdge(list, sr) == SelectSeq(list, LAMBDA t : AfterStart(t, sr))

TrailingEdge(list, sr) == SelectSeq(list, LAMBDA t : BeforeEnd(t, sr))

FilterChain(list, mwf, sr) ==
    TrailingEdge(LeadingEdge(Refractory(list, mwf, sr), sr), sr)

\* '%.4f' % onset_time: the time rounded to the nearest ten-thousandth of
\* a second, as a count of ten-thousandths
Format4(t, sr) == (2 * 10000 * t + sr) \div (2 * sr)

FormatLines(list, sr) == [i \in 1..Len(list) |-> Format4(list[i], sr)]

ExceptExit == 1

MissingExit == 1

UncaughtExit == 1

NormalExit == 0

----------------------------------------------------------------------------
(* Script 2: scripts/librosa_onset_detection.py *)

Methods == {"onset", "beat", "combined"}

\* Method names tried: the three known ones and one unknown one.
MethodNames == Methods \cup {"bogus"}

MinDbs == {-50, -30}

\* Candidate onset and beat times, in tenths of a second
Times == 0..MaxTime

beat_threshold == 2

fallback_num == 3

fallback_den == 10

ArgparseExit == 2

\* A numpy array or a Python list holding the same items
NdArray(items) == [kind |-> "ndarray", items |-> items]

PyList(items) == [kind |-> "list", items |-> items]

NoValue == PyList(<<>>)

\* Only numpy arrays have .tolist(); on a list it raises AttributeError.
HasToList(v) == v.kind = "ndarray"

Min(S) == CHOOSE x \in S : \A y \in S : x <= y

RECURSIVE Ascending(_)
Ascending(S) ==
    IF S = {} THEN <<>> ELSE <<Min(S)>> \o Ascending(S \ {Min(S)})

Abs(x) == IF x < 0 THEN -x ELSE x

\* min(beat_times, key=lambda x: abs(x - onset)): the first minimal element
ClosestBeat(beats, onset) ==
    LET best == CHOOSE i \in 1..Len(beats) :
                    /\ \A j \in 1..Len(beats) :
                           Abs(beats[i] - onset) <= Abs(beats[j] - onset)
                    /\ \A j \in 1..(i - 1) :
                           Abs(beats[j] - onset) > Abs(beats[i] - onset)
    IN  beats[best]

\* The distance bound taken as inclusive
NearBeatInclusive(beats, onset) ==
    Abs(ClosestBeat(beats, onset) - onset) <= beat_threshold

NearBeat(beats, onset) ==
    Abs(ClosestBeat(beats, onset) - onset) < beat_threshold

FilteredOnsets(list, beats) ==
    SelectSeq(list, LAMBDA t : NearBeat(beats, t))

\* len(filtered_onsets) < len(onset_times) * 0.3
TooManyFiltered(nfiltered, nonsets) ==
    fallback_den * nfiltered < fallback_num * nonsets

\* detect_combined from line 153 on: what it returns, or that it raises
CombinedReturn(ot, bt) ==
    IF Len(bt.items) > 0
    THEN LET filtered_onsets == FilteredOnsets(ot.items, bt.items)
         IN  IF TooManyFiltered(Len(filtered_onsets), Len(ot.items))
             THEN IF HasToList(ot)
                  THEN [raised |-> "none", value |-> ot.items]
                  ELSE [raised |-> "AttributeError", value |-> <<>>]
             ELSE [raised |-> "none", value |-> filtered_onsets]
    ELSE IF HasToList(ot)
         THEN [raised |-> "none", value |-> ot.items]
         ELSE [raised |-> "AttributeError", value |-> <<>>]

\* detect_onsets_only / detect_beats_only: return times.tolist()
ToListReturn(v) ==
    IF HasToList(v)
    THEN [raised |-> "none", value |-> v.items]
    ELSE [raised |-> "AttributeError", value |-> <<>>]

\* The except clause of detect_onsets_librosa: log and return [].
Handled(r) == IF r.raised = "none" THEN r.value ELSE <<>>

\* The count off by one
CountOfOffByOne(list) == Len(list) + 1

CountOf(list) == Len(list)

\* main's result dict as serialized by json.dump(s): floats are written by
\* repr and read back to the same value.
ResultDocument(list, m, db, dest) ==
    [onset_times |-> list, method |-> m, min_db |-> db,
     count |-> CountOf(list), dest |-> dest]

LibrosaIdle ==
    /\ entry = "none" /\ method = "none" /\ min_db = 0 /\ output = FALSE
    /\ loaded = FALSE /\ onset_times = <<>> /\ beat_times = <<>>
    /\ ret = <<>> /\ caught = "none" /\ docs = <<>>

Init ==
    /\ pc = "args"
    /\ argv \in Argvs
    /\ file_exists \in BOOLEAN
    /\ expected_notes = default_expected_notes
    /\ min_wait_frames = default_min_wait_frames
    /\ samplerate = 0
    /\ onset_method = "none"
    /\ threshold = 0
    /\ onsets = <<>>
    /\ raw = <<>>
    /\ refr = <<>>
    /\ total_frames = 0
    /\ beatmap = PreviousBeatmap
    /\ err = "none"
    /\ exit_code = -1
    /\ LibrosaIdle

\* main, lines 109-115: int() of a non-integer raises ValueError outside the
\* try block; the interpreter prints the traceback and exits.
ParseArgs ==
    /\ pc = "args"
    /\ IF \E i \in 1..Len(argv) : ~argv[i].isint
       THEN /\ expected_notes' =
                   IF Len(argv) >= 1 /\ argv[1].isint THEN argv[1].val
                   ELSE expected_notes
            /\ err' = "argv"
            /\ exit_code' = UncaughtExit
            /\ pc' = "exit"
            /\ UNCHANGED min_wait_frames
       ELSE /\ expected_notes' =
                   IF Len(argv) >= 1 THEN argv[1].val ELSE expected_notes
            /\ min_wait_frames' =
                   IF Len(argv) >= 2 THEN argv[2].val ELSE min_wait_frames
            /\ pc' = "exists"
            /\ UNCHANGED <<err, exit_code>>
    /\ UNCHANGED <<argv, file_exists, samplerate, onset_method, threshold,
                   onsets, raw, refr, total_frames, beatmap, librosaVars>>

\* main, lines 120-122
CheckFile ==
    /\ pc = "exists"
    /\ IF file_exists
       THEN pc' = "open" /\ UNCHANGED <<err, exit_code>>
       ELSE pc' = "exit" /\ err' = "missing" /\ exit_code' = MissingExit
    /\ UNCHANGED <<aubioVars, file_exists, librosaVars>>

\* detect_onsets_aubio, lines 25-61
OpenSource ==
    /\ pc = "open"
    /\ \E sr \in SampleRates : samplerate' = sr
    /\ onset_method' = OnsetMethod(expected_notes)
    /\ threshold' = Threshold(expected_notes)
    /\ onsets' = <<>>
    /\ total_frames' = 0
    /\ pc' = "loop"
    /\ UNCHANGED <<argv, file_exists, expected_notes, min_wait_frames, raw,
                   refr, beatmap, err, exit_code, librosaVars>>

NextPositions ==
    {p \in OnsetPositions(samplerate) :
        onsets = <<>> \/ p >= onsets[Len(onsets)]}

\* detect_onsets_aubio, lines 63-71: one pass of the read loop
ReadBlock ==
    /\ pc = "loop"
    /\ \E read \in {hop_s} \cup ShortReads :
        /\ read = hop_s => total_frames < MaxBlocks * hop_s
        /\ \/ UNCHANGED onsets
           \/ \E p \in NextPositions : onsets' = Append(onsets, p)
        /\ total_frames' = total_frames + read
        /\ IF read < hop_s
           THEN pc' = "refractory" /\ raw' = onsets'
           ELSE pc' = "loop" /\ UNCHANGED raw
    /\ UNCHANGED <<argv, file_exists, expected_notes, min_wait_frames,
                   samplerate, onset_method, threshold, refr, beatmap, err,
                   exit_code, librosaVars>>

\* The output file opened before detection runs
DetectionRaisesFileOpened ==
    /\ pc \in {"open", "loop"}
    /\ beatmap' = [state |-> "truncated", lines |-> <<>>]
    /\ err' = "detect"
    /\ exit_code' = ExceptExit
    /\ pc' = "exit"
    /\ UNCHANGED <<argv, file_exists, expected_notes, min_wait_frames,
                   samplerate, onset_method, threshold, onsets, raw, refr,
                   total_frames, librosaVars>>

\* An exception raised by source(), onset() or a block read, caught at
\* main line 135.
DetectionRaises ==
    /\ pc \in {"open", "loop"}
    /\ err' = "detect"
    /\ exit_code' = ExceptExit
    /\ pc' = "exit"
    /\ UNCHANGED <<aubioVars, file_exists, librosaVars>>

\* detect_onsets_aubio, lines 73-84
RefractoryStep ==
    /\ pc = "refractory"
    /\ onsets' = Refractory(onsets, min_wait_frames, samplerate)
    /\ refr' = onsets'
    /\ pc' = "leading"
    /\ UNCHANGED <<argv, file_exists, expected_notes, min_wait_frames,
                   samplerate, onset_method, threshold, raw, total_frames,
                   beatmap, err, exit_code, librosaVars>>

\* detect_onsets_aubio, lines 86-92
LeadingStep ==
    /\ pc = "leading"
    /\ onsets' = LeadingEdge(onsets, samplerate)
    /\ pc' = "trailing"
    /\ UNCHANGED <<argv, file_exists, expected_notes, min_wait_frames,
                   samplerate, onset_method, threshold, raw, refr,
                   total_frames, beatmap, err, exit_code, librosaVars>>

\* detect_onsets_aubio, lines 94-103
TrailingStep ==
    /\ pc = "trailing"
    /\ onsets' = TrailingEdge(onsets, samplerate)
    /\ pc' = "write"
    /\ UNCHANGED <<argv, file_exists, expected_notes, min_wait_frames,
                   samplerate, onset_method, threshold, raw, refr,
                   total_frames, beatmap, err, exit_code, librosaVars>>

\* main, lines 129-133
WriteBeatmap ==
    /\ pc = "write"
    /\ beatmap' = [state |-> "written",
                   lines |-> FormatLines(onsets, samplerate)]
    /\ exit_code' = NormalExit
    /\ pc' = "exit"
    /\ UNCHANGED <<argv, file_exists, expected_notes, min_wait_frames,
                   samplerate, onset_method, threshold, onsets, raw, refr,
                   total_frames, err, librosaVars>>

\* main, lines 129-130 raising: open() fails and leaves the file alone, or
\* write() fails after open(..., 'wt') has truncated it.
WriteRaises ==
    /\ pc = "write"
    /\ \/ UNCHANGED beatmap
       \/ beatmap' = [state |-> "truncated", lines |-> <<>>]
    /\ err' = "write"
    /\ exit_code' = ExceptExit
    /\ pc' = "exit"
    /\ UNCHANGED <<argv, file_exists, expected_notes, min_wait_frames,
                   samplerate, onset_method, threshold, onsets, raw, refr,
                   total_frames, librosaVars>>

AubioIdle ==
    /\ argv = <<>> /\ expected_notes = 0 /\ min_wait_frames = 0
    /\ samplerate = 0 /\ onset_method = "none" /\ threshold = 0
    /\ onsets = <<>> /\ raw = <<>> /\ refr = <<>> /\ total_frames = 0
    /\ beatmap = PreviousBeatmap

\* A run of script 2 from its command line, or a direct call of
\* detect_onsets_librosa by another caller.
InitLibrosa ==
    /\ entry \in {"main", "call"}
    /\ pc = IF entry = "main" THEN "l_args" ELSE "l_load"
    /\ method \in MethodNames
    /\ min_db \in MinDbs
    /\ output \in BOOLEAN
    /\ file_exists \in BOOLEAN
    /\ loaded = FALSE
    /\ onset_times = NoValue
    /\ beat_times = NoValue
    /\ ret = <<>>
    /\ caught = "none"
    /\ docs = <<>>
    /\ err = "none"
    /\ exit_code = -1
    /\ AubioIdle

\* main, lines 174-181: argparse rejects a method outside choices.
ParseArgsL ==
    /\ pc = "l_args"
    /\ IF method \in Methods
       THEN pc' = "l_exists" /\ UNCHANGED <<err, exit_code>>
       ELSE pc' = "exit" /\ err' = "usage" /\ exit_code' = ArgparseExit
    /\ UNCHANGED <<aubioVars, file_exists, librosaVars>>

\* main, lines 184-186
CheckFileL ==
    /\ pc = "l_exists"
    /\ IF file_exists
       THEN pc' = "l_load" /\ UNCHANGED <<err, exit_code>>
       ELSE pc' = "exit" /\ err' = "missing" /\ exit_code' = MissingExit
    /\ UNCHANGED <<aubioVars, file_exists, librosaVars>>

\* detect_onsets_librosa, lines 26-31, and the except clause when load raises
Load ==
    /\ pc = "l_load"
    /\ loaded' = TRUE
    /\ \/ /\ file_exists
          /\ pc' = "l_dispatch"
          /\ UNCHANGED <<ret, caught>>
       \/ /\ caught' = "load"
          /\ ret' = <<>>
          /\ pc' = "l_return"
    /\ UNCHANGED <<aubioVars, file_exists, err, exit_code, entry, method,
                   min_db, output, onset_times, beat_times, docs>>

\* detect_onsets_librosa, lines 33-44
Dispatch ==
    /\ pc = "l_dispatch"
    /\ IF method = "onset" THEN pc' = "l_onset" /\ UNCHANGED <<ret, caught>>
       ELSE IF method = "beat" THEN pc' = "l_beat" /\ UNCHANGED <<ret, caught>>
       ELSE IF method = "combined"
            THEN pc' = "l_combined" /\ UNCHANGED <<ret, caught>>
       ELSE /\ caught' = "ValueError"
            /\ ret' = <<>>
            /\ pc' = "l_return"
    /\ UNCHANGED <<aubioVars, file_exists, err, exit_code, entry, method,
                   min_db, output, loaded, onset_times, beat_times, docs>>

\* detect_onsets_only, lines 46-78; the energy filter leaves a Python list.
DetectOnsetsOnly ==
    /\ pc = "l_onset"
    /\ \E S \in SUBSET Times :
        /\ onset_times' = PyList(Ascending(S))
        /\ ret' = Handled(ToListReturn(onset_times'))
        /\ caught' = ToListReturn(onset_times').raised
    /\ pc' = "l_return"
    /\ UNCHANGED <<aubioVars, file_exists, err, exit_code, entry, method,
                   min_db, output, loaded, beat_times, docs>>

\* detect_beats_only, lines 80-108
DetectBeatsOnly ==
    /\ pc = "l_beat"
    /\ \E S \in SUBSET Times :
        /\ beat_times' = PyList(Ascending(S))
        /\ ret' = Handled(ToListReturn(beat_times'))
        /\ caught' = ToListReturn(beat_times').raised
    /\ pc' = "l_return"
    /\ UNCHANGED <<aubioVars, file_exists, err, exit_code, entry, method,
                   min_db, output, loaded, onset_times, docs>>

\* detect_combined, lines 113-151: onsets after the energy filter (a list)
\* and beats (an array)
AcquireCombined ==
    /\ pc = "l_combined"
    /\ \E S \in SUBSET Times : onset_times' = PyList(Ascending(S))
    /\ \E B \in SUBSET Times :
        /\ Cardinality(B) <= MaxBeats
        /\ beat_times' = NdArray(Ascending(B))
    /\ pc' = "l_filter"
    /\ UNCHANGED <<aubioVars, file_exists, err, exit_code, entry, method,
                   min_db, output, loaded, ret, caught, docs>>

\* detect_combined, lines 153-171, and the except clause when it raises
BeatFilter ==
    /\ pc = "l_filter"
    /\ ret' = Handled(CombinedReturn(onset_times, beat_times))
    /\ caught' = CombinedReturn(onset_times, beat_times).raised
    /\ pc' = "l_return"
    /\ UNCHANGED <<aubioVars, file_exists, err, exit_code, entry, method,
                   min_db, output, loaded, onset_times, beat_times, docs>>

\* An exception raised inside a librosa or numpy call, caught at line 42
LibrosaRaises ==
    /\ pc \in {"l_onset", "l_beat", "l_combined"}
    /\ caught' = "librosa"
    /\ ret' = <<>>
    /\ pc' = "l_return"
    /\ UNCHANGED <<aubioVars, file_exists, err, exit_code, entry, method,
                   min_db, output, loaded, onset_times, beat_times, docs>>

\* detect_onsets_librosa returns: to main (line 189) or to the direct caller
ReturnToCaller ==
    /\ pc = "l_return"
    /\ pc' = IF entry = "main" THEN "l_emit" ELSE "returned"
    /\ UNCHANGED <<aubioVars, file_exists, err, exit_code, librosaVars>>

\* main, lines 192-204
Emit ==
    /\ pc = "l_emit"
    /\ docs' = Append(docs, ResultDocument(ret, method, min_db,
                                           IF output THEN "file" ELSE "stdout"))
    /\ exit_code' = NormalExit
    /\ pc' = "exit"
    /\ UNCHANGED <<aubioVars, file_exists, err, entry, method, min_db, output,
                   loaded, onset_times, beat_times, ret, caught>>

\* main, line 201: open(args.output, 'w') raises; nothing catches it.
EmitRaises ==
    /\ pc = "l_emit"
    /\ output
    /\ err' = "output"
    /\ exit_code' = UncaughtExit
    /\ pc' = "exit"
    /\ UNCHANGED <<aubioVars, file_exists, librosaVars>>

NextLibrosa ==
    \/ ParseArgsL
    \/ CheckFileL
    \/ Load
    \/ Dispatch
    \/ DetectOnsetsOnly
    \/ DetectBeatsOnly
    \/ AcquireCombined
    \/ BeatFilter
    \/ LibrosaRaises
    \/ ReturnToCaller
    \/ Emit
    \/ EmitRaises

SpecLibrosa == InitLibrosa /\ [][NextLibrosa]_vars

Next ==
    \/ ParseArgs
    \/ CheckFile
    \/ OpenSource
    \/ ReadBlock
    \/ DetectionRaises
    \/ RefractoryStep
    \/ LeadingStep
    \/ TrailingStep
    \/ WriteBeatmap
    \/ WriteRaises

Spec == Init /\ [][Next]_vars

----------------------------------------------------------------------------
(* Properties of script 1 *)

\* The three filters of detect_onsets_aubio have all run.
ChainDone == pc = "write" \/ (pc = "exit" /\ err \in {"none", "write"})

\* The refractory step has run.
RefractoryDone == pc \in {"leading", "trailing"} \/ ChainDone

RECURSIVE IsSubseq(_, _)
IsSubseq(a, b) ==
    IF a = <<>> THEN TRUE
    ELSE IF b = <<>> THEN FALSE
    ELSE IF Head(a) = Head(b) THEN IsSubseq(Tail(a), Tail(b))
    ELSE IsSubseq(a, Tail(b))

GapsAtLeast(list, g) ==
    \A i \in 1..(Len(list) - 1) : list[i + 1] - list[i] >= g

StrictlyIncreasing(list) ==
    \A i \in 1..(Len(list) - 1) : list[i] < list[i + 1]

NonDecreasing(list) ==
    \A i \in 1..(Len(list) - 1) : list[i] <= list[i + 1]

HasDuplicate(list) ==
    \E i \in 1..(Len(list) - 1) : list[i] = list[i + 1]

\* C2: with min_wait_frames > 0 the refractory step's output is a
\* subsequence of the raw list whose consecutive onsets are at least
\* g = min_wait_frames * hop_size / samplerate apart, and the list returned
\* after the edge filters keeps that gap.
C2_RefractoryGaps ==
    (RefractoryDone /\ min_wait_frames > 0) =>
        /\ IsSubseq(refr, raw)
        /\ GapsAtLeast(refr, min_wait_frames * 256)
        /\ ChainDone =>
              /\ IsSubseq(onsets, refr)
              /\ GapsAtLeast(onsets, min_wait_frames * 256)

C2_Witness ==
    /\ ChainDone
    /\ min_wait_frames > 0
    /\ Len(refr) < Len(raw)
    /\ Len(onsets) < Len(refr)
    /\ Len(onsets) >= 2

\* C3: every returned time t has 0.1 <= t <= 15.0, both bounds inclusive:
\* an onset at exactly 0.1 s or 15.0 s that survived the refractory step is
\* returned.
C3_EdgeBounds ==
    ChainDone =>
        /\ \A i \in 1..Len(onsets) :
              /\ 10 * onsets[i] >= samplerate
              /\ onsets[i] <= 15 * samplerate
        /\ \A i \in 1..Len(refr) :
              (10 * refr[i] = samplerate \/ refr[i] = 15 * samplerate)
                  => \E j \in 1..Len(onsets) : onsets[j] = refr[i]

C3_Witness ==
    /\ ChainDone
    /\ Len(onsets) < Len(refr)
    /\ \E i \in 1..Len(onsets) : 10 * onsets[i] = samplerate
    /\ \E i \in 1..Len(onsets) : onsets[i] = 15 * samplerate

\* C4 as claimed: for every integer min_wait_frames, zero and negative
\* included, the returned list is strictly increasing.
C4_StrictlyIncreasingAlways ==
    ChainDone => StrictlyIncreasing(onsets)

\* C4 as amended: the returned list is non-decreasing for every integer
\* min_wait_frames, and strictly increasing whenever min_wait_frames > 0.
C4_OrderedAndStrictWhenPositive ==
    ChainDone =>
        /\ NonDecreasing(onsets)
        /\ min_wait_frames > 0 => StrictlyIncreasing(onsets)

C4_Witness ==
    /\ ChainDone
    /\ min_wait_frames > 0
    /\ HasDuplicate(raw)
    /\ Len(onsets) >= 2

\* C6: running the filter chain (refractory, leading edge, trailing edge,
\* same g) on the returned list gives the returned list back.
C6_ChainIdempotent ==
    ChainDone => FilterChain(onsets, min_wait_frames, samplerate) = onsets

\* The leading-edge filter removed the first onset the refractory scan
\* kept, so a second scan starts from a different onset.
C6_Witness ==
    /\ ChainDone
    /\ min_wait_frames > 0
    /\ Len(onsets) >= 2
    /\ Len(refr) < Len(raw)
    /\ refr[1] # onsets[1]

BadArgv == \E i \in 1..Len(argv) : ~argv[i].isint

\* C8 as claimed: exit code 1 exactly when the input file is missing or an
\* exception is raised during detection or writing, exit code 0 otherwise;
\* the output file is untouched when the input is missing or detection
\* raises.
C8_ExitOneOnlyOnMissingOrException ==
    pc = "exit" =>
        /\ exit_code = 1 <=> (~file_exists \/ err \in {"detect", "write"})
        /\ exit_code # 1 => exit_code = 0
        /\ (~file_exists \/ err = "detect") => beatmap = PreviousBeatmap

\* C8 as amended: exit code 1 exactly when a command-line argument is not
\* an integer, the input file is missing, or an exception is raised during
\* detection or writing, exit code 0 otherwise; the output file is
\* untouched in a run that ends before the onset list is complete.
C8_ExitCodes ==
    /\ pc = "exit" =>
          /\ exit_code = 1 <=>
                (BadArgv \/ ~file_exists \/ err \in {"detect", "write"})
          /\ exit_code # 1 => exit_code = 0
          /\ (BadArgv \/ ~file_exists \/ err = "detect")
                => beatmap = PreviousBeatmap
    /\ beatmap # PreviousBeatmap => (pc = "exit" /\ err \in {"none", "write"})
    /\ beatmap.state = "written" =>
          Len(beatmap.lines) = Len(FilterChain(raw, min_wait_frames, samplerate))

C8_Witness ==
    /\ pc = "exit"
    /\ BadArgv
    /\ file_exists
    /\ exit_code = 1
    /\ beatmap = PreviousBeatmap

\* The greedy single pass of the specification: the first onset is kept,
\* a later one is kept iff it is at least g after the last kept one.
RECURSIVE GreedyFrom(_, _, _)
GreedyFrom(list, g, kept) ==
    IF list = <<>> THEN kept
    ELSE IF kept = <<>> \/ Head(list) - kept[Len(kept)] >= g
         THEN GreedyFrom(Tail(list), g, Append(kept, Head(list)))
         ELSE GreedyFrom(Tail(list), g, kept)

\* C9: with min_wait_frames > 0 the refractory step equals the greedy
\* single pass over the raw list: first onset kept, later ones kept iff at
\* least g after the last kept onset, a gap of exactly g being enough.
C9_GreedyReference ==
    (RefractoryDone /\ min_wait_frames > 0) =>
        refr = GreedyFrom(raw, min_wait_frames * 256, <<>>)

\* g = 256 samples: 128 is dropped, 256 is kept at a gap of exactly g from
\* the last kept onset although only 128 after the last candidate seen.
C9_Witness ==
    /\ RefractoryDone
    /\ min_wait_frames = 1
    /\ raw = <<0, 128, 256>>
    /\ refr = <<0, 256>>

----------------------------------------------------------------------------
(* Properties of script 2 *)

\* detect_combined has run its beat-proximity filter on a non-empty beat list.
BeatFilterDone ==
    /\ method = "combined"
    /\ pc \in {"l_return", "l_emit", "returned", "exit"}
    /\ Len(beat_times.items) > 0
    /\ caught \in {"none", "AttributeError"}

DistanceToNearestBeat(t) ==
    Min({Abs(beat_times.items[j] - t) : j \in 1..Len(beat_times.items)})

CloseOnsets == SelectSeq(onset_times.items, LAMBDA t : DistanceToNearestBeat(t) < 2)

FallbackCase == 10 * Len(CloseOnsets) < 3 * Len(onset_times.items)

\* C1: when the beat-proximity filter would keep fewer than 30% of the
\* onsets, detect_onsets_librosa(method='combined') returns the unfiltered
\* onset list.
C1_FallbackReturnsUnfiltered ==
    (BeatFilterDone /\ FallbackCase) => ret = onset_times.items

\* C5: an unknown method name is rejected before the audio is loaded, with
\* an error the caller receives instead of a normal return.
C5_UnknownMethodRejected ==
    (entry = "call" /\ method \notin Methods) =>
        (~loaded /\ pc # "returned")

C10_KeepsOnsetsNearBeats ==
    (BeatFilterDone /\ ~FallbackCase) => ret = CloseOnsets

C10_Witness ==
    /\ BeatFilterDone
    /\ ~FallbackCase
    /\ ret # <<>>
    /\ Len(ret) < Len(onset_times.items)
    /\ \E i \in 1..Len(onset_times.items) :
          DistanceToNearestBeat(onset_times.items[i]) = 2

====
